---- MODULE Spec2Model ----
(***************************************************************************)
(* Agent communication and transaction negotiation of the python-agents    *)
(* package.                                                                *)
(*                                                                         *)
(* Several bindings of the protocol exist in the sources and are modelled   *)
(* side by side; `binding` selects one at Init and never changes:          *)
(*   "queue"   advanced_adk_example.py: AgentOrchestrator routing dict     *)
(*             messages to agents registered by name; the provider is      *)
(*             EnhancedFridgeAgent (inventory, process_message).           *)
(*   "direct"  fridge_agent_adk.py: Message objects handed to              *)
(*             Agent.handle_message by the caller, as simulation_demo.py   *)
(*             does; the provider is FridgeAgent (handler table).          *)
(*   "hub"     homehub_agent_adk.py: the requester, HomeHubAgent, handed   *)
(*             Message objects by the caller, and its HTTP request flow.   *)
(*   "agent"   fridge_agent_adk.py: the operations of the base class Agent *)
(*             (register_handler, add_capability, handle_message,          *)
(*             send_message) called on two agents with handlers that       *)
(*             return nothing.                                             *)
(*   "chain"   simulation_demo.py: one negotiation between a FridgeAgent    *)
(*             and a HomeHubAgent, every Message a handler returns being   *)
(*             handed to the handle_message of its recipient.              *)
(*   "overlap" advanced_adk_example.py: EnhancedFridgeAgent.process_message *)
(*             awaited by tasks of their own, so that up to two handler    *)
(*             invocations are suspended at their awaits at once.          *)
(*                                                                         *)
(* Every `await` on a collaborator (AI text, payment verification) is a    *)
(* point where the handler may be suspended, so a handler invocation is a  *)
(* sequence of steps and other operations interleave with it.              *)
(*                                                                         *)
(* Assumptions on the embedding program: the agent objects exist (the      *)
(* state after construction), and the collaborator classes named in        *)
(* EnhancedFridgeAgent._setup_services resolve to those of                 *)
(* fridge_agent_adk.py.  AptosPaymentService never assigns the `client`    *)
(* attribute that verify_payment reads; `client` is chosen at Init among   *)
(* the attribute left unset (the read raises), set to None (simulation     *)
(* mode) and set to a node client (the ledger decides).                    *)
(***************************************************************************)
EXTENDS Integers, Sequences, FiniteSets, TLC

\* ------------------------------------------------------------------ bounds

\* Messages created (enqueued at the orchestrator, or handed to an agent).
MaxMsgs == 2

\* Calls made on the agents of the "agent" binding.
MaxCalls == 3

\* ----------------------------------------------------- program constants

InitialCoke == 50
InitialPepsi == 30
InitialWater == 20

\* AptosPaymentService.verify_payment, simulation mode: len(tx_hash) > 10.
MinProofLen == 10

\* AptosPaymentService.service_price, 0.1 APT, in hundredths of an APT.
ServicePrice == 10

\* AIDecisionService.decision_threshold, 1.0 APT, in hundredths of an APT.
DecisionThreshold == 100

\* ------------------------------------------------------------- vocabulary

FridgeName == "SmartFridge_v2"
HubName == "HomeHub Agent"
FridgeId == "fridge_001"

\* The class recorded for a request served by FridgeAgent's HTTP route.
HttpEndpoint == "FridgeAgent.http_dispense_soda"
HubId == "homehub_001"
SellerAddress == "SELLER_ADDRESS"

\* Names under which agents get registered at the orchestrator.
AgentNames == {FridgeName, HubName}

\* The class of the agent registered under a name.
ClassOf(a) ==
    IF a = FridgeName THEN "EnhancedFridgeAgent"
    ELSE IF a = HubName THEN "HomeHubAgent"
    ELSE "none"

\* A payment proof is a string, modelled as its sequence of characters.  An
\* absent proof (None) and the empty string are both falsy in Python and are
\* modelled by the empty sequence.
NoProof == << >>
HashProof == <<"0", "x", "a", "b", "c", "d", "e", "f", "0", "1", "2">>
GarbageProof == <<"g", "a", "r", "b", "a", "g", "e">>
Proofs == {NoProof, HashProof, GarbageProof}

\* What a service_request dict may order: the default single coke, or all the
\* water there is (so that a second such request finds none left).
Orders ==
    {[item |-> "coke", quantity |-> 1],
     [item |-> "water", quantity |-> InitialWater]}

\* Dict messages a caller may hand to AgentOrchestrator.send_message.  A
\* message names its recipient; whether an agent of that name is registered
\* when the message is routed is up to the run.
ServiceRequests ==
    {[type |-> "service_request", recipient |-> FridgeName, sender |-> HubName,
      item |-> o.item, quantity |-> o.quantity, payment_proof |-> p] :
        o \in Orders, p \in {NoProof, HashProof}}

OtherDicts ==
    [type : {"inventory_check", "ping"}, recipient : {FridgeName},
     sender : {"demo_client"}]
    \cup [type : {"payment_required"}, recipient : {HubName},
          sender : {FridgeName}]

DictMessages == ServiceRequests \cup OtherDicts

\* Message objects a caller may hand to FridgeAgent.handle_message.
MessageObjects ==
    [sender_id : {HubId}, recipient_id : {FridgeId},
     message_type : {"service_request"},
     content : [service : {"soda"}, payment_proof : Proofs]]
    \cup [sender_id : {HubId}, recipient_id : {FridgeId},
          message_type : {"purchase_declined"},
          content : [reason : {"too expensive"}]]

\* request_service_from_agent keys its tracker entry by
\* f"agent_{hash(agent_endpoint) % 10000}"; one endpoint is modelled.
EndpointAgentId == "agent_4711"

\* The counterparties a HomeHubAgent may hear from or keep an entry for.
ProviderIds == {FridgeId, EndpointAgentId}

\* The services a caller asks request_service_from_agent for.
Services == {"soda", "water"}

\* An unset SELLER_ADDRESS reaches the requester as None: falsy.
NoAddress == ""

\* Quoted prices: the provider's price, and one above the requester's budget.
Prices == {ServicePrice, DecisionThreshold + 1}

\* A tracker entry: active_transactions[provider] is a dict that may hold
\* "service" and "payment_hash"; `present` tells whether the key exists.
NoEntry == [present |-> FALSE, service |-> "none", payment_hash |-> NoProof]

\* Message objects a caller may hand to HomeHubAgent.handle_message.
PaymentRequiredMessages ==
    {[sender_id |-> p.sender, recipient_id |-> HubId,
      message_type |-> "payment_required",
      content |-> [message |-> "ai_payment_request",
                   payment_info |-> [price |-> p.price, currency |-> "APT",
                                     recipient |-> p.recipient,
                                     network |-> "devnet"]]] :
        p \in [sender : {FridgeId}, price : Prices,
               recipient : {SellerAddress, NoAddress}]
              \cup [sender : {EndpointAgentId}, price : Prices,
                    recipient : {SellerAddress}]}

HubMessages ==
    PaymentRequiredMessages
    \cup [sender_id : ProviderIds, recipient_id : {HubId},
          message_type : {"service_delivered"},
          content : [status : {"ai_success"}, service : {"soda"}]]
    \cup [sender_id : {FridgeId}, recipient_id : {HubId},
          message_type : {"payment_invalid"},
          content : [error : {"Payment verification failed"}]]

\* GET requests a client may send to the route /api/dispense/soda; the
\* header x-payment-proof is absent, or holds a proof.
HttpRequests ==
    [method : {"GET"}, path : {"/api/dispense/soda"},
     headers : [x_payment_proof : Proofs]]

\* What the endpoint answers the first GET of request_service_via_http:
\* 402 with the payment information, or the service right away.
HttpAnswers ==
    [status : {402}, price : Prices, recipient : {SellerAddress}]
    \cup [status : {200}, price : {0}, recipient : {NoAddress}]

\* The agents of the "agent" binding, the message kinds handed to them and
\* the handlers registered with them.
AgentIds == {FridgeId, HubId}
Kinds == {"ping", "pong"}
Handlers == {"handler_a", "handler_b"}
NoHandler == "none"

\* Message objects a caller may hand to Agent.handle_message of the agent
\* they are addressed to.
PlainMessages ==
    {m \in [sender_id : AgentIds, recipient_id : AgentIds,
            message_type : Kinds, content : {[text |-> "hello"]}] :
        m.sender_id # m.recipient_id}

NoInv == [stage |-> "none"]
NoDone == [outcome |-> "nothing"]

\* ------------------------------------------------------------------ state

VARIABLES
    binding,        \* the binding modelled (see the header)
    private_key,    \* AptosPaymentClient.private_key is set
    active_transactions,  \* HomeHubAgent.active_transactions
    client,         \* AptosPaymentService.client: "unset", "none" or "node"
    ledger,         \* the proofs the node's ledger holds as valid payments
    agents,         \* AgentOrchestrator.agents: the registered names
    registration,   \* AgentOrchestrator.agents: the names in insertion order
    initialized,    \* agents whose initialize() has completed
    message_queue,  \* AgentOrchestrator.message_queue
    running,        \* AgentOrchestrator.running
    pc,             \* position of start() / _process_messages
    inventory,      \* EnhancedFridgeAgent.inventory
    inv,            \* the handler invocation in flight, or NoInv
    done,           \* history: the last completed dispatch
    verifications,  \* history: the verify_payment calls, in order
    hooked,         \* history: the agents whose shutdown hook the latest
                    \* shutdown() call invoked
    stopped,        \* history: "no" shutdown() call yet, "yes" one and no
                    \* start() since, "restarted" start() ran since
    sent,           \* history: number of messages created ("agent"
                    \* binding: of calls made) so far
    interrupted,    \* history: the number of the message whose handler was
                    \* in flight when shutdown() was last called, 0: none
    started_with,   \* history: the agents registered when start() was called
    message_handlers,  \* Agent.message_handlers of each agent
    capabilities,   \* Agent.capabilities of each agent
    clock,          \* the reading of datetime.now().timestamp()
    constructed,    \* history: the send_message calls and what they returned
    registered,     \* history: the register_handler calls, in order
    parked,         \* a second handler invocation suspended at an await
                    \* while `inv` is the one resumed next, or NoInv
    chain           \* history: the messages of the negotiation, in order

vars == <<binding, private_key, active_transactions, client, ledger, agents,
          registration, initialized, message_queue, running, pc, inventory,
          inv, done, verifications, hooked, stopped, sent, interrupted,
          started_with, message_handlers, capabilities, clock, constructed,
          registered, parked, chain>>

\* ------------------------------------------------------- pure operations

NoResponse == [none |-> TRUE]

\* self.inventory.get(item, 0)
Available(stock, item) == IF item \in DOMAIN stock THEN stock[item] ELSE 0

\* EnhancedFridgeAgent._calculate_price, in hundredths of an APT.
BasePrice(item) ==
    CASE item = "coke" -> 10
      [] item = "pepsi" -> 10
      [] item = "water" -> 5
      [] OTHER -> 10

CalculatePrice(item, quantity) == BasePrice(item) * quantity

StartsWith0x(p) == Len(p) >= 2 /\ p[1] = "0" /\ p[2] = "x"

\* verify_payment without a client (simulation mode):
\* tx_hash and tx_hash.startswith("0x") and len(tx_hash) > 10
SimulatedVerify(p) == p # NoProof /\ StartsWith0x(p) /\ Len(p) > MinProofLen

\* Mutant: the verifier remembers accepted proofs and refuses them afterwards.
VerifyOutcomesSpent(mode, p) ==
    IF mode = "unset" THEN {"raised"}
    ELSE IF \E i \in 1..Len(verifications) :
               verifications[i].proof = p /\ verifications[i].answer = "true"
         THEN {"false"}
    ELSE IF mode = "none"
         THEN {IF SimulatedVerify(p) THEN "true" ELSE "false"}
         ELSE {IF p \in ledger THEN "true" ELSE "false"}

\* What one call of AptosPaymentService.verify_payment can produce.  The
\* attribute `client` is read before the try block: where it was never
\* assigned the read raises AttributeError.  With a node client the answer is
\* that of the ledger lookup for the hash (an exception inside the try gives
\* False); the ledger's record of a hash does not change during a run.
VerifyOutcomes(mode, p) ==
    IF mode = "unset" THEN {"raised"}
    ELSE IF mode = "none"
         THEN {IF SimulatedVerify(p) THEN "true" ELSE "false"}
         ELSE {IF p \in ledger THEN "true" ELSE "false"}

\* The responses of EnhancedFridgeAgent (dicts).
InsufficientResponse(stock, item) ==
    [status |-> "error", message |-> "Insufficient inventory", item |-> item,
     available |-> Available(stock, item)]

PaymentRequiredResponse(item, quantity) ==
    [status |-> "payment_required", message |-> "ai_payment_request",
     price |-> CalculatePrice(item, quantity), recipient |-> SellerAddress]

SuccessResponse(stock, item, quantity) ==
    [status |-> "success", message |-> "ai_success", item |-> item,
     quantity |-> quantity, remaining_inventory |-> stock[item]]

VerificationFailedResponse ==
    [status |-> "error", message |-> "Payment verification failed"]

UnknownTypeResponse(type) ==
    [error |-> "Unknown message type", type |-> type]

\* AptosPaymentService.get_payment_info
PaymentInfo ==
    [price |-> ServicePrice, currency |-> "APT", recipient |-> SellerAddress,
     network |-> "devnet"]

\* `[:64]`: the number of hex digits make_payment keeps.
HashDigits == 64

\* The transaction hash make_payment simulates: "0x" and the hex digits of
\* the text of amount, recipient and time stamp, cut to HashDigits digits
\* (the 32 first characters of that text, which an address fills).  One
\* element stands for one character; the first digit stands for those of
\* the amount, the others for those of the recipient.
TxHash(amount, recipient) ==
    <<"0", "x">>
    \o [i \in 1..HashDigits |-> IF i = 1 THEN ToString(amount) ELSE recipient]

\* Mutant: the reply keeps the direction of the message it answers.
AgentSendMessageUnswapped(agent_id, recipient_id, message_type, content) ==
    [sender_id |-> recipient_id, recipient_id |-> agent_id,
     message_type |-> message_type, content |-> content]

\* Agent.send_message: the calling agent is the sender.
AgentSendMessage(agent_id, recipient_id, message_type, content) ==
    [sender_id |-> agent_id, recipient_id |-> recipient_id,
     message_type |-> message_type, content |-> content]

\* web.json_response(body, status=status); the status defaults to 200.
HttpResponse(status, body) == [status_code |-> status, body |-> body]

\* What kind of reply a response is, whichever binding produced it.
ReplyKind(r) ==
    IF r = NoResponse THEN "none"
    ELSE IF "message_type" \in DOMAIN r THEN r.message_type
    ELSE IF "status_code" \in DOMAIN r
    THEN (IF r.status_code = 402 THEN "payment_required"
          ELSE IF r.status_code = 200 THEN "service_delivered"
          ELSE "payment_invalid")
    ELSE IF "error" \in DOMAIN r THEN "unknown_type"
    ELSE IF r.status = "payment_required" THEN "payment_required"
    ELSE IF r.status = "success" THEN "service_delivered"
    ELSE IF r.message = "Insufficient inventory" THEN "insufficient"
    ELSE "payment_invalid"

\* Mutant: the availability test with <= for <.
EnhancedFirstStepOffByOne(stock, ready, m) ==
    IF Available(stock, m.item) <= m.quantity
    THEN [kind |-> "return", response |-> InsufficientResponse(stock, m.item)]
    ELSE IF m.payment_proof = NoProof
    THEN IF ready THEN [kind |-> "await", stage |-> "ai_payment_request"]
         ELSE [kind |-> "raise", response |-> NoResponse]
    ELSE IF ready THEN [kind |-> "await", stage |-> "verify_payment"]
         ELSE [kind |-> "raise", response |-> NoResponse]

\* Mutant: payment is looked at before the inventory.
EnhancedFirstStepPaymentFirst(stock, ready, m) ==
    IF m.payment_proof # NoProof
    THEN IF ready THEN [kind |-> "await", stage |-> "verify_payment"]
         ELSE [kind |-> "raise", response |-> NoResponse]
    ELSE IF Available(stock, m.item) < m.quantity
    THEN [kind |-> "return", response |-> InsufficientResponse(stock, m.item)]
    ELSE IF ready THEN [kind |-> "await", stage |-> "ai_payment_request"]
         ELSE [kind |-> "raise", response |-> NoResponse]

\* Mutant: a request that carries a proof is served without verifying it.
EnhancedFirstStepNoVerify(stock, ready, m) ==
    IF Available(stock, m.item) < m.quantity
    THEN [kind |-> "return", response |-> InsufficientResponse(stock, m.item)]
    ELSE IF m.payment_proof = NoProof
    THEN IF ready THEN [kind |-> "await", stage |-> "ai_payment_request"]
         ELSE [kind |-> "raise", response |-> NoResponse]
    ELSE IF ready THEN [kind |-> "await", stage |-> "ai_success"]
         ELSE [kind |-> "raise", response |-> NoResponse]

\* Mutant: a proof is looked at only when the request before it was answered
\* with payment_required; otherwise it is refused unverified.
EnhancedFirstStepNeedsQuote(stock, ready, m) ==
    IF Available(stock, m.item) < m.quantity
    THEN [kind |-> "return", response |-> InsufficientResponse(stock, m.item)]
    ELSE IF m.payment_proof = NoProof
    THEN IF ready THEN [kind |-> "await", stage |-> "ai_payment_request"]
         ELSE [kind |-> "raise", response |-> NoResponse]
    ELSE IF ~(done.outcome = "response" /\ "status" \in DOMAIN done.response
              /\ done.response.status = "payment_required")
    THEN [kind |-> "return", response |-> VerificationFailedResponse]
    ELSE IF ready THEN [kind |-> "await", stage |-> "verify_payment"]
         ELSE [kind |-> "raise", response |-> NoResponse]

\* EnhancedFridgeAgent._handle_service_request up to its first await.
\* `ready`: _setup_services has run, so ai_service and payment_service exist;
\* otherwise reading the attribute raises AttributeError.
EnhancedFirstStep(stock, ready, m) ==
    IF Available(stock, m.item) < m.quantity
    THEN [kind |-> "return", response |-> InsufficientResponse(stock, m.item)]
    ELSE IF m.payment_proof = NoProof
    THEN IF ready THEN [kind |-> "await", stage |-> "ai_payment_request"]
         ELSE [kind |-> "raise", response |-> NoResponse]
    ELSE IF ready THEN [kind |-> "await", stage |-> "verify_payment"]
         ELSE [kind |-> "raise", response |-> NoResponse]

\* The message types EnhancedFridgeAgent.process_message names.
EnhancedTypes == {"service_request", "inventory_check", "payment_verification"}

\* EnhancedFridgeAgent.process_message: _handle_inventory_check and
\* _handle_payment_verification are not defined, their lookup raises.
EnhancedProcessMessage(stock, ready, m) ==
    IF m.type = "service_request" THEN EnhancedFirstStep(stock, ready, m)
    ELSE IF m.type \in EnhancedTypes
    THEN [kind |-> "raise", response |-> NoResponse]
    ELSE [kind |-> "return", response |-> UnknownTypeResponse(m.type)]

\* agent.process_message(message) as _route_message calls it.  HomeHubAgent
\* derives from fridge_agent_adk.Agent, which has no process_message.
ProcessMessage(class, stock, ready, m) ==
    IF class = "EnhancedFridgeAgent" THEN EnhancedProcessMessage(stock, ready, m)
    ELSE [kind |-> "raise", response |-> NoResponse]

\* FridgeAgent.message_handlers after __init__.
FridgeHandlers == {"service_request"}

\* FridgeAgent.handle_service_request up to its first await.
FridgeFirstStep(m) ==
    IF m.content.payment_proof = NoProof
    THEN [kind |-> "await", stage |-> "ai_payment_request"]
    ELSE [kind |-> "await", stage |-> "verify_payment"]

\* FridgeAgent.http_dispense_soda up to its first await.
HttpFirstStep(request) ==
    IF request.headers.x_payment_proof = NoProof
    THEN [kind |-> "await", stage |-> "ai_payment_request"]
    ELSE [kind |-> "await", stage |-> "verify_payment"]

\* Agent.handle_message on the FridgeAgent.
FridgeHandleMessage(m) ==
    IF m.message_type \in FridgeHandlers THEN FridgeFirstStep(m)
    ELSE [kind |-> "return", response |-> NoResponse]

\* Mutant: the queue hands out its newest entry.
QueueGetLifo(q) == [env |-> q[Len(q)], rest |-> SubSeq(q, 1, Len(q) - 1)]

\* asyncio.Queue.get: first in, first out.
QueueGet(q) == [env |-> Head(q), rest |-> Tail(q)]

\* Mutant: a message for an unknown recipient is put back for a later try.
UnknownRecipientRequeue(q, env) == Append(q, env)

\* _route_message, recipient not in self.agents: a warning, nothing else.
UnknownRecipient(q, env) == q

\* _route_message, the agent returned `response`: it is logged.
ResponseRouted(q, response) == q

\* Mutant: no except clause, a handler's error ends _process_messages.
AfterDispatchUncaught(kind) == IF kind = "raise" THEN "crashed" ELSE "loop"

\* _process_messages after _route_message returned or raised: both except
\* clauses swallow the error and the while loop goes on.
AfterDispatch(kind) == "loop"

OutcomeOf(kind, response) ==
    IF kind = "raise" THEN "raised"
    ELSE IF response = NoResponse THEN "none"
    ELSE "response"

\* ------------------------------------------------------------------- Init

\* The proofs that requests of a binding carry: what the ledger may be asked.
ProofsSent(b) ==
    IF b \in {"queue", "overlap"}
    THEN {m.payment_proof : m \in ServiceRequests} \ {NoProof}
    ELSE IF b = "chain" THEN {TxHash(PaymentInfo.price, PaymentInfo.recipient)}
    ELSE Proofs \ {NoProof}

InitialInventory ==
    [coke |-> InitialCoke, pepsi |-> InitialPepsi, water |-> InitialWater]

Init ==
    /\ binding \in {"queue", "direct", "hub", "agent", "overlap", "chain"}
    /\ private_key \in IF binding \in {"hub", "chain"} THEN BOOLEAN
                       ELSE {FALSE}
    /\ active_transactions = [p \in ProviderIds |-> NoEntry]
    /\ client \in IF binding \in {"hub", "agent"} THEN {"unset"}
                  ELSE {"unset", "none", "node"}
    /\ ledger \in IF client = "node" THEN SUBSET ProofsSent(binding) ELSE {{}}
    /\ agents = {}
    /\ registration = << >>
    /\ initialized = {}
    /\ message_queue = << >>
    /\ running = FALSE
    /\ pc = "idle"
    /\ inventory = InitialInventory
    /\ inv = NoInv
    /\ done = NoDone
    /\ verifications = << >>
    /\ hooked = {}
    /\ stopped = "no"
    /\ sent = 0
    /\ interrupted = 0
    /\ started_with = {}
    /\ message_handlers = [a \in AgentIds |-> [k \in Kinds |-> NoHandler]]
    /\ capabilities = [a \in AgentIds |-> << >>]
    /\ clock = 0
    /\ constructed = << >>
    /\ registered = << >>
    /\ parked = NoInv
    /\ chain = << >>

\* ------------------------------------------------- history bookkeeping

\* What is remembered of a completed dispatch: the message and the agent it
\* was handed to (class "none": no agent), how the handler ended, its
\* response, what verify_payment was called with and answered, and the
\* inventory when the handler began and when it ended.
DoneRecord(env, recipient, class, kind, response, check, before, after) ==
    [seq |-> env.seq, msg |-> env.msg, recipient |-> recipient,
     class |-> class, outcome |-> OutcomeOf(kind, response),
     response |-> response, verifier |-> check.verifier,
     verified |-> check.verified, before |-> before, after |-> after]

NotChecked == [verifier |-> "not_called", verified |-> NoProof]

\* --------------------------------------------- orchestrator operations

\* AgentOrchestrator.register_agent.  The log line reads agent.role, which a
\* HomeHubAgent lacks: the call then raises after the agent was stored.
RegisterAgent(a) ==
    /\ binding = "queue"
    /\ a \notin agents
    /\ agents' = agents \cup {a}
    /\ registration' = Append(registration, a)
    /\ UNCHANGED <<binding, private_key, active_transactions, client, ledger,
                   hooked, stopped, verifications, initialized, message_queue,
                   running, pc, inventory, inv, done, sent, interrupted,
                   started_with, message_handlers, capabilities, clock,
                   constructed, registered, parked, chain>>

\* AgentOrchestrator.send_message: put on the unbounded queue.
SendMessage(m) ==
    /\ binding = "queue"
    /\ sent < MaxMsgs
    /\ sent' = sent + 1
    /\ message_queue' = Append(message_queue, [seq |-> sent + 1, msg |-> m])
    /\ UNCHANGED <<binding, private_key, active_transactions, client, ledger,
                   registration, hooked, stopped, verifications, agents,
                   initialized, running, pc, inventory, inv, done,
                   interrupted, started_with, message_handlers, capabilities,
                   clock, constructed, registered, parked, chain>>

\* Whether agent.initialize() completes: a HomeHubAgent has no initialize.
CanInitialize(a) == ClassOf(a) = "EnhancedFridgeAgent"

\* `for agent in self.agents.values(): await agent.initialize()`, every
\* initialize() completing: all the agents registered at that time.
InitializedByStart(names) == names

\* AgentOrchestrator.start up to the routing loop: running is set, then the
\* registered agents are initialized in registration order.  initialize()
\* awaits nothing outside the agent, so this is one step.  When an
\* initialize() raises, start() ends with that error and the loop is never
\* entered; the agents registered before the failing one stay initialized.
Start ==
    /\ binding = "queue"
    /\ pc = "idle"
    /\ running' = TRUE
    /\ stopped' = IF stopped = "yes" THEN "restarted" ELSE stopped
    /\ started_with' = agents
    /\ IF \A a \in agents : CanInitialize(a)
       THEN /\ initialized' = InitializedByStart(agents)
            /\ pc' = "loop"
       ELSE /\ initialized' \in SUBSET {a \in agents : CanInitialize(a)}
            /\ pc' = "crashed"
    /\ UNCHANGED <<binding, private_key, active_transactions, client, ledger,
                   registration, hooked, verifications, agents, message_queue,
                   inventory, inv, done, sent, interrupted, message_handlers,
                   capabilities, clock, constructed, registered, parked,
                   chain>>

\* _process_messages: the test of `while self.running`.
LoopCheck ==
    /\ pc = "loop"
    /\ pc' = IF running THEN "wait" ELSE "exited"
    /\ UNCHANGED <<binding, private_key, active_transactions, client, ledger,
                   registration, hooked, stopped, verifications, agents,
                   initialized, message_queue, running, inventory, inv, done,
                   sent, interrupted, started_with, message_handlers,
                   capabilities, clock, constructed, registered, parked,
                   chain>>

\* _process_messages: wait_for(queue.get(), timeout=1.0) timed out.
Timeout ==
    /\ pc = "wait"
    /\ message_queue = << >>
    /\ pc' = "loop"
    /\ UNCHANGED <<binding, private_key, active_transactions, client, ledger,
                   registration, hooked, stopped, verifications, agents,
                   initialized, message_queue, running, inventory, inv, done,
                   sent, interrupted, started_with, message_handlers,
                   capabilities, clock, constructed, registered, parked,
                   chain>>

\* _process_messages got a message, _route_message finds no such agent.
RouteUnknown ==
    /\ pc = "wait"
    /\ message_queue # << >>
    /\ LET got == QueueGet(message_queue)
           env == got.env
       IN /\ env.msg.recipient \notin agents
          /\ message_queue' = UnknownRecipient(got.rest, env)
          /\ done' = DoneRecord(env, env.msg.recipient, "none", "return",
                                NoResponse, NotChecked, inventory, inventory)
    /\ pc' = "loop"
    /\ UNCHANGED <<binding, private_key, active_transactions, client, ledger,
                   registration, hooked, stopped, verifications, agents,
                   initialized, running, inventory, inv, sent, interrupted,
                   started_with, message_handlers, capabilities, clock,
                   constructed, registered, parked, chain>>

\* Mutant: the handler is started as a task of its own and the loop goes on.
WhileHandlerSuspendedDetached(stage) == "loop"

\* `await self._route_message(message)` / `await agent.process_message(...)`:
\* while the handler is suspended the loop is suspended in that await.
WhileHandlerSuspended(stage) == "handling"

\* _process_messages got a message and _route_message hands it to the
\* registered agent's process_message, which runs to its first await, to its
\* return or to an error.
RouteDispatch ==
    /\ pc = "wait"
    /\ message_queue # << >>
    /\ LET got == QueueGet(message_queue)
           env == got.env
           to == env.msg.recipient
           r == ProcessMessage(ClassOf(to), inventory, to \in initialized,
                               env.msg)
       IN /\ to \in agents
          /\ IF r.kind = "await"
             THEN /\ inv' = [stage |-> r.stage, env |-> env, recipient |-> to,
                             class |-> ClassOf(to), before |-> inventory,
                             check |-> NotChecked]
                  /\ message_queue' = got.rest
                  /\ pc' = WhileHandlerSuspended(r.stage)
                  /\ UNCHANGED done
             ELSE /\ done' = DoneRecord(env, to, ClassOf(to), r.kind,
                                        r.response, NotChecked, inventory,
                                        inventory)
                  /\ message_queue' =
                        IF r.kind = "return" /\ r.response # NoResponse
                        THEN ResponseRouted(got.rest, r.response)
                        ELSE got.rest
                  /\ pc' = AfterDispatch(r.kind)
                  /\ UNCHANGED inv
    /\ UNCHANGED <<binding, private_key, active_transactions, client, ledger,
                   registration, hooked, stopped, verifications, agents,
                   initialized, running, inventory, sent, interrupted,
                   started_with, message_handlers, capabilities, clock,
                   constructed, registered, parked, chain>>

\* BaseADKAgent.shutdown exists for the agents derived from BaseADKAgent; a
\* HomeHubAgent has no such method.
HasShutdownHook(a) == ClassOf(a) = "EnhancedFridgeAgent"

\* `for agent in self.agents.values(): await agent.shutdown()`: the agents
\* whose hook runs, in insertion order up to the first agent without one
\* (the attribute lookup raises there and ends shutdown()).
HookedAgents(order) ==
    {order[i] : i \in {k \in 1..Len(order) :
                         \A j \in 1..k : HasShutdownHook(order[j])}}

\* Mutant: shutdown() runs the hooks and leaves the flag as it is.
RunningAfterShutdownKept(position, flag) == flag

\* `self.running = False`, whatever start() / _process_messages is doing.
RunningAfterShutdown(position, flag) == FALSE

\* Mutant: shutdown() cancels the handler that is in flight.
InFlightAfterShutdownCancelled(i) == NoInv

\* shutdown() holds no reference to the task of _process_messages or to the
\* handler it awaits: an invocation in flight is left as it is.
InFlightAfterShutdown(i) == i

\* AgentOrchestrator.shutdown: the flag is cleared, then the shutdown hook
\* of each registered agent is awaited (the hook only logs).  It may be
\* called at any time, also before start().
Shutdown ==
    /\ binding = "queue"
    /\ stopped' = "yes"
    /\ running' = RunningAfterShutdown(pc, running)
    /\ inv' = InFlightAfterShutdown(inv)
    /\ interrupted' = IF inv # NoInv THEN inv.env.seq ELSE 0
    /\ hooked' = HookedAgents(registration)
    /\ UNCHANGED <<binding, private_key, active_transactions, client, ledger,
                   agents, registration, initialized, message_queue, pc,
                   inventory, done, verifications, sent, started_with,
                   message_handlers, capabilities, clock, constructed,
                   registered, parked, chain>>

\* ------------------------------------------------- direct invocation

\* FridgeAgent.handle_message(m): the handler of the message's type runs to
\* its first await; without a handler None is returned.
FridgeReceives(m) ==
    /\ inv = NoInv
    /\ sent' = sent + 1
    /\ LET env == [seq |-> sent + 1, msg |-> m]
           r == FridgeHandleMessage(m)
       IN IF r.kind = "await"
          THEN /\ inv' = [stage |-> r.stage, env |-> env,
                          recipient |-> FridgeId, class |-> "FridgeAgent",
                          before |-> inventory, check |-> NotChecked]
               /\ UNCHANGED done
          ELSE /\ done' = DoneRecord(env, FridgeId, "FridgeAgent", r.kind,
                                     r.response, NotChecked, inventory,
                                     inventory)
               /\ UNCHANGED inv
    /\ UNCHANGED <<binding, private_key, active_transactions, client, ledger,
                   registration, hooked, stopped, verifications, agents,
                   initialized, message_queue, running, pc, inventory,
                   interrupted, started_with, message_handlers, capabilities,
                   clock, constructed, registered, parked, chain>>

\* The caller hands a Message to FridgeAgent.handle_message.
DirectCall(m) ==
    /\ binding = "direct"
    /\ sent < MaxMsgs
    /\ FridgeReceives(m)

\* A client's GET reaches FridgeAgent.http_dispense_soda.
HttpDispense(request) ==
    /\ binding = "direct"
    /\ inv = NoInv
    /\ sent < MaxMsgs
    /\ sent' = sent + 1
    /\ inv' = [stage |-> HttpFirstStep(request).stage,
               env |-> [seq |-> sent + 1, msg |-> request],
               recipient |-> FridgeId, class |-> HttpEndpoint,
               before |-> inventory, check |-> NotChecked]
    /\ UNCHANGED <<binding, private_key, active_transactions, client, ledger,
                   registration, hooked, stopped, verifications, agents,
                   initialized, message_queue, running, pc, inventory, done,
                   interrupted, started_with, message_handlers, capabilities,
                   clock, constructed, registered, parked, chain>>

\* ------------------------------------------------ overlapping callers

\* A caller awaits agent.initialize() on the EnhancedFridgeAgent it holds.
AgentInitialize ==
    /\ binding = "overlap"
    /\ FridgeName \notin initialized
    /\ initialized' = {FridgeName}
    /\ UNCHANGED <<binding, private_key, active_transactions, client, ledger,
                   registration, hooked, stopped, verifications, agents,
                   message_queue, running, pc, inventory, inv, done, sent,
                   interrupted, started_with, message_handlers, capabilities,
                   clock, constructed, registered, parked, chain>>

\* A task awaits EnhancedFridgeAgent.process_message(m) on its own, whether
\* or not another invocation is suspended at one of its awaits: the handler
\* runs to its first await, to its return or to an error.  `inv` is the
\* suspended invocation the event loop resumes next, `parked` the other one.
ExternalCall(m) ==
    /\ binding = "overlap"
    /\ parked = NoInv
    /\ sent < MaxMsgs
    /\ sent' = sent + 1
    /\ LET env == [seq |-> sent + 1, msg |-> m]
           r == EnhancedProcessMessage(inventory, FridgeName \in initialized,
                                       m)
           n == [stage |-> r.stage, env |-> env, recipient |-> FridgeName,
                 class |-> "EnhancedFridgeAgent", before |-> inventory,
                 check |-> NotChecked]
       IN IF r.kind = "await"
          THEN /\ IF inv = NoInv
                  THEN inv' = n /\ UNCHANGED parked
                  ELSE parked' = n /\ UNCHANGED inv
               /\ UNCHANGED done
          ELSE /\ done' = DoneRecord(env, FridgeName, "EnhancedFridgeAgent",
                                     r.kind, r.response, NotChecked,
                                     inventory, inventory)
               /\ UNCHANGED <<inv, parked>>
    /\ UNCHANGED <<binding, private_key, active_transactions, client, ledger,
                   registration, hooked, stopped, verifications, agents,
                   initialized, message_queue, running, pc, inventory,
                   interrupted, started_with, message_handlers, capabilities,
                   clock, constructed, registered, chain>>

\* The event loop turns to the other suspended invocation.
Reschedule ==
    /\ binding = "overlap"
    /\ parked # NoInv
    /\ inv' = parked
    /\ parked' = inv
    /\ UNCHANGED <<binding, private_key, active_transactions, client, ledger,
                   registration, hooked, stopped, verifications, agents,
                   initialized, message_queue, running, pc, inventory, done,
                   sent, interrupted, started_with, message_handlers,
                   capabilities, clock, constructed, registered, chain>>

\* ------------------------------------------------------ handler steps

\* The handler in flight returns `response` or raises (kind = "raise").
Complete(kind, response, check, after) ==
    /\ done' = DoneRecord(inv.env, inv.recipient, inv.class, kind, response,
                          check, inv.before, after)
    /\ inv' = NoInv
    /\ message_queue' =
          IF binding = "queue" /\ kind = "return" /\ response # NoResponse
          THEN ResponseRouted(message_queue, response)
          ELSE message_queue
    /\ pc' = IF binding = "queue" THEN AfterDispatch(kind) ELSE pc

\* generate_payment_request returned: the payment_required reply.
ResumePaymentRequest ==
    /\ inv.stage = "ai_payment_request"
    /\ LET m == inv.env.msg
       IN IF inv.class = "EnhancedFridgeAgent"
          THEN Complete("return", PaymentRequiredResponse(m.item, m.quantity),
                        inv.check, inventory)
          ELSE IF inv.class = HttpEndpoint
          THEN Complete("return",
                        HttpResponse(402,
                            [message |-> "ai_payment_request",
                             price |-> PaymentInfo.price,
                             recipient |-> PaymentInfo.recipient]),
                        inv.check, inventory)
          ELSE Complete("return",
                        AgentSendMessage(FridgeId, m.sender_id,
                            "payment_required",
                            [message |-> "ai_payment_request",
                             payment_info |-> PaymentInfo]),
                        inv.check, inventory)
    /\ UNCHANGED <<binding, private_key, active_transactions, client, ledger,
                   registration, hooked, stopped, verifications, agents,
                   initialized, running, inventory, sent, interrupted,
                   started_with, message_handlers, capabilities, clock,
                   constructed, registered, parked, chain>>

\* Mutant: a delivery puts the units on the shelf.
DispenseRestocks(stock, item, quantity) ==
    [stock EXCEPT ![item] = @ + quantity]

\* The inventory after EnhancedFridgeAgent dispensed: inventory[item] -= quantity.
Dispense(stock, item, quantity) == [stock EXCEPT ![item] = @ - quantity]

ProofOf(i) ==
    IF i.class = "EnhancedFridgeAgent" THEN i.env.msg.payment_proof
    ELSE IF i.class = HttpEndpoint THEN i.env.msg.headers.x_payment_proof
    ELSE i.env.msg.content.payment_proof

\* Mutant: the provider serves whatever verify_payment answers.
AfterVerificationAlwaysDeliver(o) == IF o = "raised" THEN "raise" ELSE "deliver"

\* `is_valid = await ...verify_payment(payment_proof)` and `if is_valid:`: an
\* error raised by the call leaves the handler, a true answer takes the
\* delivery branch, a false one the rejection branch.
AfterVerification(o) ==
    IF o = "raised" THEN "raise"
    ELSE IF o = "true" THEN "deliver"
    ELSE "reject"

\* verify_payment answered (or raised).
ResumeVerify ==
    /\ inv.stage = "verify_payment"
    /\ \E o \in VerifyOutcomes(client, ProofOf(inv)) :
          LET m == inv.env.msg
          IN /\ verifications' =
                   Append(verifications,
                          [proof |-> ProofOf(inv), answer |-> o,
                           dispensed |-> /\ AfterVerification(o) = "deliver"
                                         /\ inv.class = "EnhancedFridgeAgent"])
             /\ CASE AfterVerification(o) = "raise" ->
                    /\ Complete("raise", NoResponse,
                                [verifier |-> o, verified |-> ProofOf(inv)],
                                inventory)
                    /\ UNCHANGED inventory
               [] AfterVerification(o) = "deliver" ->
                    /\ inventory' =
                          IF inv.class = "EnhancedFridgeAgent"
                          THEN Dispense(inventory, m.item, m.quantity)
                          ELSE inventory
                    /\ inv' = [inv EXCEPT
                                  !.stage = "ai_success",
                                  !.check = [verifier |-> o,
                                             verified |-> ProofOf(inv)]]
                    /\ UNCHANGED <<done, message_queue, pc>>
               [] AfterVerification(o) = "reject" ->
                    /\ IF inv.class = "EnhancedFridgeAgent"
                       THEN Complete("return", VerificationFailedResponse,
                                     [verifier |-> o,
                                      verified |-> ProofOf(inv)], inventory)
                       ELSE IF inv.class = HttpEndpoint
                       THEN Complete("return",
                                HttpResponse(400,
                                    [error |-> "Payment verification failed"]),
                                [verifier |-> o,
                                 verified |-> ProofOf(inv)], inventory)
                       ELSE Complete("return",
                                AgentSendMessage(FridgeId, m.sender_id,
                                    "payment_invalid",
                                    [error |-> "Payment verification failed"]),
                                [verifier |-> o,
                                 verified |-> ProofOf(inv)], inventory)
                    /\ UNCHANGED inventory
    /\ UNCHANGED <<binding, private_key, active_transactions, client, ledger,
                   registration, hooked, stopped, agents, initialized,
                   running, sent, interrupted, started_with, message_handlers,
                   capabilities, clock, constructed, registered, parked,
                   chain>>

\* generate_success_message returned: the delivery reply.
ResumeSuccess ==
    /\ inv.stage = "ai_success"
    /\ LET m == inv.env.msg
       IN IF inv.class = "EnhancedFridgeAgent"
          THEN Complete("return",
                        SuccessResponse(inventory, m.item, m.quantity),
                        inv.check, inventory)
          ELSE IF inv.class = HttpEndpoint
          THEN Complete("return",
                        HttpResponse(200, [status |-> "ai_success"]),
                        inv.check, inventory)
          ELSE Complete("return",
                        AgentSendMessage(FridgeId, m.sender_id,
                            "service_delivered",
                            [status |-> "ai_success",
                             service |-> m.content.service]),
                        inv.check, inventory)
    /\ UNCHANGED <<binding, private_key, active_transactions, client, ledger,
                   registration, hooked, stopped, verifications, agents,
                   initialized, running, inventory, sent, interrupted,
                   started_with, message_handlers, capabilities, clock,
                   constructed, registered, parked, chain>>

\* ------------------------------------------------------ the requester

\* AIDecisionService.should_purchase: price <= decision_threshold; the
\* reasoning is a text made of the price, the service, the verdict and the
\* threshold.
ShouldPurchase(service, price) ==
    [decision |-> price <= DecisionThreshold,
     reasoning |-> <<price, service,
                     IF price <= DecisionThreshold THEN "acceptable"
                     ELSE "too expensive",
                     DecisionThreshold>>]

\* Mutant: the payment is made whatever the decision.
AfterDecisionAlwaysPay(decision) == "make_payment"

\* `if decision_info["decision"]:` in handle_payment_required and in
\* request_service_via_http.
AfterDecision(decision) == IF decision THEN "make_payment" ELSE "decline"

\* AptosPaymentClient.make_payment.
MakePayment(key, amount, recipient) ==
    IF key /\ recipient # NoAddress
    THEN [success |-> TRUE, transaction_hash |-> TxHash(amount, recipient),
          amount |-> amount, recipient |-> recipient, network |-> "devnet"]
    ELSE [success |-> FALSE,
          error |-> "Missing private key or recipient address"]

NoPayment == [called |-> FALSE]

\* Mutant: the requester never looks its tracker up and names the default.
ServiceNameDefault(tracker, provider, default) == default

\* active_transactions.get(provider, {}).get("service", default)
ServiceName(tracker, provider, default) ==
    IF tracker[provider].present /\ tracker[provider].service # "none"
    THEN tracker[provider].service
    ELSE default

\* Mutant: the hash goes into the reply only, the tracker is left alone.
StorePaymentHashSkipped(tracker, provider, tx) == tracker

\* handle_payment_required after a successful payment: the entry of the
\* provider is created when missing and the hash is stored in it.
StorePaymentHash(tracker, provider, tx) ==
    [tracker EXCEPT ![provider] =
        [present |-> TRUE, service |-> @.service, payment_hash |-> tx]]

\* handle_payment_required, decision false: the tracker is not touched.
TrackerAfterDecline(tracker, provider) == tracker

\* Mutant: the decline carries a text of its own, not the reasoning.
DeclineResponseTerse(agent_id, provider, decision_info) ==
    AgentSendMessage(agent_id, provider, "purchase_declined",
                     [reason |-> <<0, "unknown service", "too expensive",
                                   DecisionThreshold>>,
                      max_budget |-> DecisionThreshold])

\* handle_payment_required, decision false: purchase_declined goes back to
\* the sender of the quote with the reasoning and the budget.
DeclineResponse(agent_id, provider, decision_info) ==
    AgentSendMessage(agent_id, provider, "purchase_declined",
                     [reason |-> decision_info.reasoning,
                      max_budget |-> DecisionThreshold])

\* handle_payment_required, payment_result["success"] false: the error is
\* logged and None is returned.
PaymentFailedResponse(agent_id, provider, result) == NoResponse

\* Mutant: the delivery of one provider closes every open transaction.
TrackerAfterDeliveredCleared(tracker, provider) ==
    [p \in DOMAIN tracker |-> NoEntry]

\* handle_service_delivered: `del self.active_transactions[sender_id]`.
TrackerAfterDelivered(tracker, provider) ==
    [tracker EXCEPT ![provider] = NoEntry]

\* Mutant: the requester offers its whole budget, whatever was quoted.
PaymentTermsBudget(m) ==
    [price |-> DecisionThreshold,
     recipient |-> m.content.payment_info.recipient]

\* handle_payment_required: price and recipient are read from the
\* payment_info of the message being handled.
PaymentTerms(m) ==
    [price |-> m.content.payment_info.price,
     recipient |-> m.content.payment_info.recipient]

\* What is remembered of a completed requester invocation: the message (or
\* the endpoint's answer), the decision taken ("none": no decision was
\* asked for), the service and the price should_purchase was called with,
\* the make_payment call and its result, the response, and the tracker when
\* the handler began and when it ended.
HubDoneRecord(i, kind, response, decision, payment, after) ==
    [seq |-> i.env.seq, msg |-> i.env.msg, recipient |-> HubId,
     class |-> "HomeHubAgent", via |-> i.via,
     outcome |-> OutcomeOf(kind, response), response |-> response,
     decision |-> decision, asked |-> [service |-> i.service,
                                       price |-> i.price],
     payment |-> payment, before |-> i.before, after |-> after]

\* Mutant: an invalid payment makes the requester ask again from scratch.
PaymentInvalidResponseRetry(agent_id, m) ==
    AgentSendMessage(agent_id, m.sender_id, "service_request",
                     [service |-> "soda", payment_proof |-> NoProof])

\* handle_payment_invalid logs the error and returns None ("could implement
\* retry logic here").
PaymentInvalidResponse(agent_id, m) == NoResponse

\* HomeHubAgent.handle_message(m).  handle_payment_required runs to its
\* first await (should_purchase); handle_service_delivered and
\* handle_payment_invalid return None.
HubReceives(m) ==
    /\ inv = NoInv
    /\ sent' = sent + 1
    /\ LET i == [stage |-> "should_purchase",
                 env |-> [seq |-> sent + 1, msg |-> m],
                 recipient |-> HubId, class |-> "HomeHubAgent",
                 via |-> "message", provider |-> m.sender_id,
                 before |-> active_transactions,
                 decision |-> "none", payment |-> NoPayment,
                 service |-> "none", price |-> 0, payee |-> NoAddress]
       IN CASE m.message_type = "payment_required" ->
                 /\ inv' = [i EXCEPT
                       !.service = ServiceName(active_transactions,
                                       m.sender_id, "unknown service"),
                       !.price = PaymentTerms(m).price,
                       !.payee = PaymentTerms(m).recipient]
                 /\ UNCHANGED <<done, active_transactions>>
            [] m.message_type = "service_delivered" ->
                 /\ active_transactions' =
                       TrackerAfterDelivered(active_transactions, m.sender_id)
                 /\ done' = HubDoneRecord(i, "return", NoResponse, "none",
                                NoPayment, active_transactions')
                 /\ UNCHANGED inv
            [] OTHER ->
                 /\ done' = HubDoneRecord(i, "return",
                                PaymentInvalidResponse(HubId, m), "none",
                                NoPayment, active_transactions)
                 /\ UNCHANGED <<inv, active_transactions>>
    /\ UNCHANGED <<binding, private_key, client, ledger, agents, registration,
                   initialized, message_queue, running, pc, inventory,
                   verifications, hooked, stopped, interrupted, started_with,
                   message_handlers, capabilities, clock, constructed,
                   registered, parked, chain>>

\* The caller hands a Message to HomeHubAgent.handle_message.
HubCall(m) ==
    /\ binding = "hub"
    /\ sent < MaxMsgs
    /\ HubReceives(m)

\* request_service_from_agent: the tracker entry of the endpoint's agent id
\* is (re)written with the service; the message it builds goes nowhere.
RequestServiceFromAgent(service) ==
    /\ binding = "hub"
    /\ active_transactions' =
          [active_transactions EXCEPT ![EndpointAgentId] =
              [present |-> TRUE, service |-> service, payment_hash |-> NoProof]]
    /\ UNCHANGED <<binding, private_key, client, ledger, agents, registration,
                   initialized, message_queue, running, pc, inventory, inv,
                   done, verifications, hooked, stopped, sent, interrupted,
                   started_with, message_handlers, capabilities, clock,
                   constructed, registered, parked, chain>>

\* request_service_via_http up to its first decision: the endpoint answered
\* the GET without proof.
HttpRequest(answer) ==
    /\ binding = "hub"
    /\ inv = NoInv
    /\ sent < MaxMsgs
    /\ sent' = sent + 1
    /\ LET i == [stage |-> "should_purchase",
                 env |-> [seq |-> sent + 1, msg |-> answer],
                 recipient |-> HubId, class |-> "HomeHubAgent",
                 via |-> "http", provider |-> FridgeId,
                 before |-> active_transactions,
                 decision |-> "none", payment |-> NoPayment,
                 service |-> "soda", price |-> answer.price,
                 payee |-> answer.recipient]
       IN IF answer.status = 402
          THEN inv' = i /\ UNCHANGED done
          ELSE /\ done' = HubDoneRecord(i, "return", NoResponse, "none",
                              NoPayment, active_transactions)
               /\ UNCHANGED inv
    /\ UNCHANGED <<binding, private_key, active_transactions, client, ledger,
                   agents, registration, initialized, message_queue, running,
                   pc, inventory, verifications, hooked, stopped, interrupted,
                   started_with, message_handlers, capabilities, clock,
                   constructed, registered, parked, chain>>

\* should_purchase answered.  Accept: on to make_payment.  Reject: the
\* message handler replies purchase_declined, the HTTP flow logs and ends.
HubDecide ==
    /\ inv.stage = "should_purchase"
    /\ LET d == ShouldPurchase(inv.service, inv.price)
           verdict == IF d.decision THEN "accept" ELSE "reject"
       IN IF AfterDecision(d.decision) = "make_payment"
          THEN /\ inv' = [inv EXCEPT !.stage = "make_payment",
                                     !.decision = verdict]
               /\ UNCHANGED <<done, active_transactions>>
          ELSE /\ active_transactions' =
                     IF inv.via = "message"
                     THEN TrackerAfterDecline(active_transactions, inv.provider)
                     ELSE active_transactions
               /\ done' = HubDoneRecord(inv, "return",
                              IF inv.via = "message"
                              THEN DeclineResponse(HubId, inv.provider, d)
                              ELSE NoResponse,
                              verdict, NoPayment, active_transactions')
               /\ inv' = NoInv
    /\ UNCHANGED <<binding, private_key, client, ledger, agents, registration,
                   initialized, message_queue, running, pc, inventory,
                   verifications, hooked, stopped, sent, interrupted,
                   started_with, message_handlers, capabilities, clock,
                   constructed, registered, parked, chain>>

\* make_payment answered.  Success: the message handler stores the hash and
\* replies with a service_request that carries it, the HTTP flow goes on to
\* its second GET.  Failure: logged.
HubPay ==
    /\ inv.stage = "make_payment"
    /\ LET result == MakePayment(private_key, inv.price, inv.payee)
           call == [called |-> TRUE, amount |-> inv.price,
                    recipient |-> inv.payee, result |-> result]
       IN IF result.success /\ inv.via = "http"
          THEN /\ inv' = [inv EXCEPT !.stage = "http_retry", !.payment = call]
               /\ UNCHANGED <<done, active_transactions>>
          ELSE /\ active_transactions' =
                     IF result.success
                     THEN StorePaymentHash(active_transactions, inv.provider,
                                           result.transaction_hash)
                     ELSE active_transactions
               /\ done' = HubDoneRecord(inv, "return",
                              IF result.success
                              THEN AgentSendMessage(HubId, inv.provider,
                                       "service_request",
                                       [service |-> inv.service,
                                        payment_proof |->
                                            result.transaction_hash])
                              ELSE IF inv.via = "message"
                              THEN PaymentFailedResponse(HubId, inv.provider,
                                                         result)
                              ELSE NoResponse,
                              inv.decision, call, active_transactions')
               /\ inv' = NoInv
    /\ UNCHANGED <<binding, private_key, client, ledger, agents, registration,
                   initialized, message_queue, running, pc, inventory,
                   verifications, hooked, stopped, sent, interrupted,
                   started_with, message_handlers, capabilities, clock,
                   constructed, registered, parked, chain>>

\* request_service_via_http: the second GET, with the x-payment-proof
\* header, was answered 200 or otherwise; both are logged.
HttpRetry ==
    /\ inv.stage = "http_retry"
    /\ \E status \in {200, 400} :
          done' = [HubDoneRecord(inv, "return", NoResponse, inv.decision,
                                 inv.payment, active_transactions)
                   EXCEPT !.msg = [inv.env.msg EXCEPT !.status = status]]
    /\ inv' = NoInv
    /\ UNCHANGED <<binding, private_key, active_transactions, client, ledger,
                   agents, registration, initialized, message_queue, running,
                   pc, inventory, verifications, hooked, stopped, sent,
                   interrupted, started_with, message_handlers, capabilities,
                   clock, constructed, registered, parked, chain>>

\* ----------------------------------------------------- the negotiation

\* The request a negotiation begins with: a service_request without proof
\* from the requester to the provider.
InitialRequest ==
    [sender_id |-> HubId, recipient_id |-> FridgeId,
     message_type |-> "service_request",
     content |-> [service |-> "soda", payment_proof |-> NoProof]]

\* The caller builds the initial request.
ChainStart ==
    /\ binding = "chain"
    /\ chain = << >>
    /\ chain' = <<InitialRequest>>
    /\ UNCHANGED <<binding, private_key, active_transactions, client, ledger,
                   registration, hooked, stopped, verifications, agents,
                   initialized, message_queue, running, pc, inventory, inv,
                   done, sent, interrupted, started_with, message_handlers,
                   capabilities, clock, constructed, registered, parked>>

\* The caller hands the latest message of the negotiation to the
\* handle_message of the agent it names as recipient.
Deliver ==
    /\ binding = "chain"
    /\ sent < Len(chain)
    /\ LET m == chain[sent + 1]
       IN IF m.recipient_id = FridgeId THEN FridgeReceives(m)
          ELSE HubReceives(m)

\* handle_message returned a Message: the caller takes it as the next
\* message of the negotiation.
RouteBack ==
    /\ binding = "chain"
    /\ inv = NoInv
    /\ sent = Len(chain)
    /\ done.outcome = "response"
    /\ done.seq = sent
    /\ chain' = Append(chain, done.response)
    /\ UNCHANGED <<binding, private_key, active_transactions, client, ledger,
                   registration, hooked, stopped, verifications, agents,
                   initialized, message_queue, running, pc, inventory, inv,
                   done, sent, interrupted, started_with, message_handlers,
                   capabilities, clock, constructed, registered, parked>>

\* ---------------------------------------------------- the base class

\* Mutant: a kind keeps the handler it was first registered with.
RegisterHandlerTableFirstWins(table, kind, handler) ==
    IF table[kind] = NoHandler THEN [table EXCEPT ![kind] = handler]
    ELSE table

\* Agent.register_handler: self.message_handlers[message_type] = handler.
RegisterHandlerTable(table, kind, handler) == [table EXCEPT ![kind] = handler]

RegisterHandler(a, kind, handler) ==
    /\ binding = "agent"
    /\ sent < MaxCalls
    /\ sent' = sent + 1
    /\ message_handlers' =
          [message_handlers EXCEPT
              ![a] = RegisterHandlerTable(@, kind, handler)]
    /\ registered' =
          Append(registered, [agent |-> a, kind |-> kind, handler |-> handler])
    /\ UNCHANGED <<binding, private_key, active_transactions, client, ledger,
                   agents, registration, initialized, message_queue, running,
                   pc, inventory, inv, done, verifications, hooked, stopped,
                   interrupted, started_with, capabilities, clock,
                   constructed, parked, chain>>

\* Agent.add_capability: self.capabilities.append(capability).
AddCapability(a, capability) ==
    /\ binding = "agent"
    /\ sent < MaxCalls
    /\ sent' = sent + 1
    /\ capabilities' = [capabilities EXCEPT ![a] = Append(@, capability)]
    /\ UNCHANGED <<binding, private_key, active_transactions, client, ledger,
                   agents, registration, initialized, message_queue, running,
                   pc, inventory, inv, done, verifications, hooked, stopped,
                   interrupted, started_with, message_handlers, clock,
                   constructed, registered, parked, chain>>

\* Agent.handle_message: the handler the table holds for the message's type
\* is awaited (the handlers here return None); without one a warning is
\* logged and None is returned.  `calls` in the history: the number of
\* register_handler calls made before this one.
Dispatch(table, m) ==
    [handler |-> table[m.message_type], kind |-> "return",
     response |-> NoResponse]

HandleMessage(a, m) ==
    /\ binding = "agent"
    /\ sent < MaxCalls
    /\ sent' = sent + 1
    /\ LET r == Dispatch(message_handlers[a], m)
       IN done' = [seq |-> sent + 1, msg |-> m, recipient |-> a,
                   class |-> "Agent", outcome |-> OutcomeOf(r.kind, r.response),
                   response |-> r.response, handler |-> r.handler,
                   calls |-> Len(registered)]
    /\ UNCHANGED <<binding, private_key, active_transactions, client, ledger,
                   agents, registration, initialized, message_queue, running,
                   pc, inventory, inv, verifications, hooked, stopped,
                   interrupted, started_with, message_handlers, capabilities,
                   clock, constructed, registered, parked, chain>>

\* id=f"msg_{datetime.now().timestamp()}"
MessageId(now) == <<"msg_", now>>

\* Mutant: send_message hands the message to the orchestrator.
QueueAfterAgentSendEnqueued(q, m) == Append(q, m)

\* Agent.send_message knows no orchestrator: no queue is touched.
QueueAfterAgentSend(q, m) == q

\* Agent.send_message: the Message is constructed, logged and returned.  The
\* clock reads `now` during the call: the reading of the call before it, or
\* a later one.
SendMessageCall(a, recipient_id, message_type, content, now) ==
    /\ binding = "agent"
    /\ sent < MaxCalls
    /\ sent' = sent + 1
    /\ clock' = now
    /\ LET m == [id |-> MessageId(now), sender_id |-> a,
                 recipient_id |-> recipient_id, message_type |-> message_type,
                 content |-> content]
       IN /\ constructed' =
                Append(constructed,
                       [by |-> a, recipient_id |-> recipient_id,
                        message_type |-> message_type, content |-> content,
                        returned |-> m])
          /\ message_queue' = QueueAfterAgentSend(message_queue, m)
    /\ UNCHANGED <<binding, private_key, active_transactions, client, ledger,
                   agents, registration, initialized, running, pc, inventory,
                   inv, done, verifications, hooked, stopped, interrupted,
                   started_with, message_handlers, capabilities, registered,
                   parked, chain>>

\* ------------------------------------------------------------------- Next

Next ==
    \/ \E a \in AgentNames : RegisterAgent(a)
    \/ \E m \in DictMessages : SendMessage(m)
    \/ Start
    \/ LoopCheck
    \/ Timeout
    \/ RouteUnknown
    \/ RouteDispatch
    \/ Shutdown
    \/ \E m \in MessageObjects : DirectCall(m)
    \/ \E request \in HttpRequests : HttpDispense(request)
    \/ ChainStart
    \/ Deliver
    \/ RouteBack
    \/ AgentInitialize
    \/ \E m \in ServiceRequests : ExternalCall(m)
    \/ Reschedule
    \/ ResumePaymentRequest
    \/ ResumeVerify
    \/ ResumeSuccess
    \/ \E m \in HubMessages : HubCall(m)
    \/ \E service \in Services : RequestServiceFromAgent(service)
    \/ \E answer \in HttpAnswers : HttpRequest(answer)
    \/ HubDecide
    \/ HubPay
    \/ HttpRetry
    \/ \E a \in AgentIds, kind \in Kinds, handler \in Handlers :
          RegisterHandler(a, kind, handler)
    \/ \E a \in AgentIds : AddCapability(a, "messaging")
    \/ \E m \in PlainMessages : HandleMessage(m.recipient_id, m)
    \/ \E a \in AgentIds, now \in {clock, clock + 1} :
          SendMessageCall(a, CHOOSE r \in AgentIds : r # a, "ping",
                          [text |-> "hello"], now)

Spec == Init /\ [][Next]_vars

\* The routing loop and the collaborators it awaits make progress: the event
\* loop runs every ready step of start() / _process_messages, and an awaited
\* collaborator call comes back.
LoopStep ==
    LoopCheck \/ Timeout \/ RouteUnknown \/ RouteDispatch
    \/ ResumePaymentRequest \/ ResumeVerify \/ ResumeSuccess

FairSpec == Spec /\ WF_vars(LoopStep)

\* The negotiation makes progress: the caller hands on every message it
\* holds, and awaited collaborator calls come back.
NegotiationStep ==
    Deliver \/ RouteBack \/ ResumePaymentRequest \/ ResumeVerify
    \/ ResumeSuccess \/ HubDecide \/ HubPay

NegotiationSpec == Spec /\ WF_vars(NegotiationStep)

\* ------------------------------------------------ reading the history

InQueue(n) == \E i \in 1..Len(message_queue) : message_queue[i].seq = n

\* The queue without the entry numbered n, the order of the others kept.
Without(q, n) == SelectSeq(q, LAMBDA e : e.seq # n)

\* The dispatch the history holds is a service_request handed to a provider.
IsServiceRequest(d) ==
    /\ d.outcome # "nothing"
    /\ \/ d.class = "EnhancedFridgeAgent" /\ d.msg.type = "service_request"
       \/ d.class = "FridgeAgent" /\ d.msg.message_type = "service_request"

RequestProof(d) ==
    IF d.class = "EnhancedFridgeAgent" THEN d.msg.payment_proof
    ELSE d.msg.content.payment_proof

\* message.get("item") / content["service"]; the FridgeAgent serves one unit.
RequestedItem(d) ==
    IF d.class = "EnhancedFridgeAgent" THEN d.msg.item
    ELSE d.msg.content.service

RequestedQuantity(d) ==
    IF d.class = "EnhancedFridgeAgent" THEN d.msg.quantity ELSE 1

\* Enough was in stock when the handler began.  The FridgeAgent tracks no
\* resource and never finds one short.
Sufficient(d) ==
    \/ d.class = "FridgeAgent"
    \/ Available(d.before, d.msg.item) >= d.msg.quantity

\* The provider's collaborators exist: the FridgeAgent builds them in
\* __init__, the EnhancedFridgeAgent in _setup_services, run by initialize().
ServicesReady(d) ==
    \/ d.class = "FridgeAgent"
    \/ d.recipient \in initialized

\* ----------------------------------------------------------------- claims

\* C1: with requester and provider registered at a running orchestrator, the
\* provider initialized and a verifier that accepts, one service_request
\* without proof enqueued for the provider leads, with no further message
\* enqueued by a caller, to the provider replying service_delivered and its
\* inventory of the item having decreased by the requested quantity.  Stated
\* on the state the run ends in: that request has been routed, the queue is
\* empty and the loop waits for a next message.
HappyPathDelivers ==
    ( /\ binding = "queue"
      /\ client = "none"
      /\ sent = 1
      /\ IsServiceRequest(done)
      /\ done.class = "EnhancedFridgeAgent"
      /\ RequestProof(done) = NoProof
      /\ Sufficient(done)
      /\ {FridgeName, HubName} \subseteq agents
      /\ FridgeName \in initialized
      /\ running
      /\ pc = "wait"
      /\ inv = NoInv
      /\ message_queue = << >> )
    => /\ ReplyKind(done.response) = "service_delivered"
       /\ inventory[done.msg.item]
             = InitialInventory[done.msg.item] - done.msg.quantity

\* C2: whenever a handler the routing loop dispatched to returns a response,
\* the orchestrator appends that response to its message queue.
ResponseEnqueued ==
    [][ ( /\ binding = "queue"
          /\ done' # done
          /\ done'.outcome = "response" )
        => /\ message_queue' # << >>
           /\ message_queue'[Len(message_queue')].msg = done'.response ]_vars

\* C3: FIFO per recipient.  Whenever the loop takes a message off the queue,
\* no handler is in flight (the handler of every message taken before has
\* returned or raised, also one that was suspended on a collaborator), no
\* message enqueued earlier for the same recipient is still waiting, and a
\* registered recipient's handler is invoked for exactly that message.
FifoPerRecipient ==
    [][ Len(message_queue') < Len(message_queue)
        => LET e == CHOOSE x \in { message_queue[i] : i \in 1..Len(message_queue) } :
                        \A j \in 1..Len(message_queue') : message_queue'[j] # x
           IN /\ inv = NoInv
              /\ \A j \in 1..Len(message_queue') :
                    message_queue'[j].msg.recipient = e.msg.recipient
                       => message_queue'[j].seq > e.seq
              /\ e.msg.recipient \in agents
                    => \/ inv' # NoInv /\ inv'.env = e
                       \/ inv' = NoInv /\ done'.outcome # "nothing"
                          /\ done'.seq = e.seq /\ done'.class # "none" ]_vars

\* C3 witness: the first message's handler went through payment verification
\* (a suspension) and completed, and the handler of the second message to the
\* same recipient is now in flight.
FifoWitness ==
    /\ binding = "queue"
    /\ inv # NoInv
    /\ inv.env.seq = 2
    /\ done.outcome # "nothing"
    /\ done.seq = 1
    /\ done.recipient = inv.recipient
    /\ done.verifier # "not_called"

\* C4: when a handler raises while the loop dispatches a message, the error
\* stays in the loop: the running flag is unchanged, the loop is back at its
\* while test, every other queued message is still queued in order, and each
\* of them is dequeued later unless shutdown() clears the running flag.
HandlerFailureIsolated ==
    /\ [][ ( /\ binding = "queue"
             /\ done' # done
             /\ done'.outcome = "raised" )
           => /\ running' = running
              /\ pc' = "loop"
              /\ message_queue' = Without(message_queue, done'.seq) ]_vars
    /\ \A n \in 1..MaxMsgs :
          (done.outcome = "raised" /\ InQueue(n)) ~> (~InQueue(n) \/ ~running)

\* C4 witness: the first message's handler raised and the loop is handling
\* the second.
HandlerFailureWitness ==
    /\ done.outcome = "raised"
    /\ done.seq = 1
    /\ running
    /\ inv # NoInv
    /\ inv.env.seq = 2

\* C5: a dequeued message whose recipient is not registered invokes no
\* handler, is dropped (the queue only loses it, nothing is added, no reply
\* is produced), changes no agent state, and leaves the loop at its while
\* test with the running flag unchanged; the messages queued behind it are
\* dequeued later unless shutdown() clears the running flag.
UnknownRecipientDropped ==
    /\ [][ ( /\ pc = "wait"
             /\ pc' # "wait"
             /\ message_queue # << >>
             /\ Head(message_queue).msg.recipient \notin agents )
           => /\ message_queue' = Tail(message_queue)
              /\ inv' = NoInv
              /\ done'.seq = Head(message_queue).seq
              /\ done'.class = "none"
              /\ done'.outcome = "none"
              /\ inventory' = inventory
              /\ running' = running
              /\ pc' = "loop" ]_vars
    /\ \A n \in 1..MaxMsgs :
          (done.outcome = "none" /\ done.class = "none" /\ InQueue(n))
             ~> (~InQueue(n) \/ ~running)

\* C5 witness: the first message was dropped for want of a recipient and the
\* handler of the second is in flight.
UnknownRecipientWitness ==
    /\ done.outcome = "none"
    /\ done.class = "none"
    /\ done.seq = 1
    /\ inv # NoInv
    /\ inv.env.seq = 2

\* The agent that was handed the message has no handler for its kind: the
\* kind is not in the FridgeAgent's handler table, or not one of the types
\* EnhancedFridgeAgent.process_message names.
NoHandlerFor(d) ==
    /\ d.outcome # "nothing"
    /\ \/ d.class = "FridgeAgent" /\ d.msg.message_type \notin FridgeHandlers
       \/ d.class = "EnhancedFridgeAgent" /\ d.msg.type \notin EnhancedTypes

\* C6: an agent handed a message whose kind has no handler returns no
\* response, raises no error and leaves its resource counters unchanged.
UnknownKindIgnored ==
    NoHandlerFor(done)
    => /\ done.outcome = "none"
       /\ done.after = done.before

\* C7: a service_request without proof never reaches the payment verifier
\* and changes no stock; the provider's response to it is payment_required
\* when the stock of the requested item is at least the requested quantity
\* and the insufficient-inventory error otherwise, never anything else; and
\* a provider whose collaborators are set up (or whose stock is short) does
\* respond.  (Handlers invoked one at a time: with two in flight the stock
\* before and after spans the other invocation's steps.)
ProoflessRequestAnswer ==
    (IsServiceRequest(done) /\ RequestProof(done) = NoProof
     /\ binding # "overlap")
    => /\ done.verifier = "not_called"
       /\ done.after = done.before
       /\ done.outcome # "none"
       /\ (ServicesReady(done) \/ ~Sufficient(done)) => done.outcome = "response"
       /\ done.outcome = "response"
             => ReplyKind(done.response) =
                   IF Sufficient(done) THEN "payment_required"
                   ELSE "insufficient"

\* C7 witness: a request without proof for an item that a previous delivery
\* used up was answered with the insufficient-inventory error.
ProoflessInsufficientWitness ==
    /\ IsServiceRequest(done)
    /\ RequestProof(done) = NoProof
    /\ done.class = "EnhancedFridgeAgent"
    /\ Available(done.before, RequestedItem(done)) = 0
    /\ ReplyKind(done.response) = "insufficient"

\* C8: a service_request that carries a proof while the stock of the
\* requested item is below the requested quantity is answered with the
\* insufficient-inventory error, the payment verifier is not called and the
\* inventory is unchanged.
AvailabilityCheckedFirst ==
    ( /\ IsServiceRequest(done)
      /\ RequestProof(done) # NoProof
      /\ ~Sufficient(done) )
    => /\ done.outcome = "response"
       /\ ReplyKind(done.response) = "insufficient"
       /\ done.response.available = Available(done.before, done.msg.item)
       /\ done.verifier = "not_called"
       /\ done.after = done.before

\* C8 witness: such a request was handled.
PaidButInsufficientWitness ==
    /\ IsServiceRequest(done)
    /\ RequestProof(done) # NoProof
    /\ ~Sufficient(done)
    /\ done.outcome = "response"

\* C9: the provider replies service_delivered to a service_request exactly
\* when the request carried a proof and verify_payment, called with that
\* proof while the request was handled, answered true; and a handler is on
\* its way to the delivery reply only after such an answer.
DeliveryOnlyAfterVerification ==
    /\ IsServiceRequest(done)
          => ( ReplyKind(done.response) = "service_delivered"
               <=> /\ RequestProof(done) # NoProof
                   /\ done.verifier = "true"
                   /\ done.verified = RequestProof(done) )
    /\ inv.stage = "ai_success"
          => /\ ProofOf(inv) # NoProof
             /\ inv.check = [verifier |-> "true", verified |-> ProofOf(inv)]

\* C9 witness: a delivery by the queue-bound provider.
DeliveredWitness ==
    /\ IsServiceRequest(done)
    /\ done.class = "EnhancedFridgeAgent"
    /\ ReplyKind(done.response) = "service_delivered"

\* C10: on every delivery the provider's stock of the requested item has
\* gone down by the requested quantity (1 where the request names none) and
\* the stock of every other item is unchanged.
DeliveryDecrementsInventory ==
    (IsServiceRequest(done) /\ ReplyKind(done.response) = "service_delivered")
    => /\ Available(done.after, RequestedItem(done))
             = Available(done.before, RequestedItem(done))
                  - RequestedQuantity(done)
       /\ \A j \in DOMAIN done.before \ {RequestedItem(done)} :
             done.after[j] = done.before[j]

\* C11: when the payment verifier answers false for the proof of a
\* service_request, the provider replies payment_invalid with an error
\* payload, the FridgeAgent's reply message being addressed to the sender of
\* the request (the EnhancedFridgeAgent's reply is the dict returned to the
\* caller), and the provider's inventory is what it was when the handler
\* began.
BadProofRejected ==
    (IsServiceRequest(done) /\ done.verifier = "false")
    => /\ RequestProof(done) # NoProof
       /\ done.outcome = "response"
       /\ ReplyKind(done.response) = "payment_invalid"
       /\ done.after = done.before
       /\ IF done.class = "FridgeAgent"
          THEN /\ done.response.recipient_id = done.msg.sender_id
               /\ done.response.sender_id = done.recipient
               /\ done.response.content = [error |-> "Payment verification failed"]
          ELSE done.response = VerificationFailedResponse

\* C11 witness: a proof the verifier rejected was answered by the FridgeAgent.
BadProofWitness ==
    /\ IsServiceRequest(done)
    /\ done.class = "FridgeAgent"
    /\ done.verifier = "false"
    /\ done.verified = GarbageProof

\* C12: over any sequence of service_request messages the provider decrements
\* its inventory at most once per distinct payment proof: no two
\* verifications that were followed by a decrement carry the same proof.
ReplayDecrementsOnce ==
    \A i, j \in 1..Len(verifications) :
       ( /\ verifications[i].dispensed
         /\ verifications[j].dispensed
         /\ verifications[i].proof = verifications[j].proof )
       => i = j

StatelessVerification ==
    (IsServiceRequest(done) /\ RequestProof(done) # NoProof
     /\ binding # "overlap")
    => IF ~Sufficient(done)
       THEN /\ ReplyKind(done.response) = "insufficient"
            /\ done.verifier = "not_called"
       ELSE IF ~ServicesReady(done)
       THEN done.outcome = "raised" /\ done.verifier = "not_called"
       ELSE /\ done.verifier \in VerifyOutcomes(client, RequestProof(done))
            /\ done.verified = RequestProof(done)
            /\ CASE done.verifier = "true" ->
                      ReplyKind(done.response) = "service_delivered"
                 [] done.verifier = "false" ->
                      ReplyKind(done.response) = "payment_invalid"
                 [] OTHER -> done.outcome = "raised"

\* C14 witness: the first message a provider ever handled carried a proof (no
\* payment_required went before it) and was served.
ProofWithoutQuoteWitness ==
    /\ IsServiceRequest(done)
    /\ done.seq = 1
    /\ Len(verifications) = 1
    /\ RequestProof(done) # NoProof
    /\ ReplyKind(done.response) = "service_delivered"

\* C19: when the payment verifier raises while a provider handles a
\* service_request, the handler still returns a business-error response
\* (payment_invalid) and no error leaves the agent's handle_message.
CollaboratorErrorContained ==
    (IsServiceRequest(done) /\ done.verifier = "raised")
    => /\ done.outcome = "response"
       /\ ReplyKind(done.response) = "payment_invalid"

\* The routing loop is not running: start() has not entered it, or it left
\* the while loop, or start() ended with an error before entering it.
LoopExited == pc \notin {"loop", "wait", "handling"}

\* A shutdown() call invokes the hook of every registered agent (all of them
\* agents that have the hook, as register_agent declares).
HooksInvoked ==
    [][ (stopped' = "yes" /\ (stopped # "yes" \/ hooked' # hooked))
        => ((\A a \in agents : HasShutdownHook(a)) => hooked' = agents) ]_vars

IsQuote(d) ==
    /\ d.outcome # "nothing"
    /\ "via" \in DOMAIN d
    /\ \/ d.via = "http" /\ d.decision # "none"
       \/ d.via = "message" /\ d.msg.message_type = "payment_required"

\* The price the provider quoted in the message (or 402 answer) handled.
QuotedPrice(d) ==
    IF d.via = "http" THEN d.msg.price ELSE d.msg.content.payment_info.price

\* C15: make_payment is called for a quote only after the decision function
\* accepted it: a quote the decision function rejects (its price is above
\* the threshold) ends without a make_payment call, in the payment_required
\* handler and in the HTTP flow, and a handler is at or past make_payment
\* only with an accepted quote.
DeclinedNeverPays ==
    /\ IsQuote(done)
          => /\ done.decision =
                   IF ShouldPurchase("soda", QuotedPrice(done)).decision
                   THEN "accept" ELSE "reject"
             /\ done.decision = "reject" => done.payment = NoPayment
    /\ (inv # NoInv /\ inv.stage \in {"make_payment", "http_retry"})
          => /\ inv.decision = "accept"
             /\ ShouldPurchase(inv.service, inv.price).decision

\* C15 witness: the payment_required handler declined a quote.
DeclinedWitness ==
    /\ IsQuote(done)
    /\ done.via = "message"
    /\ done.decision = "reject"
    /\ ReplyKind(done.response) = "purchase_declined"

\* C16: after the requester declined a quote, its transaction tracker holds
\* no entry for the provider that sent the quote.
DeclineClearsTracker ==
    (IsQuote(done) /\ done.via = "message" /\ done.decision = "reject")
    => ~done.after[done.msg.sender_id].present

\* C17: when the decision function accepts and make_payment succeeds, the
\* requester has stored the returned hash in its tracker under the id of the
\* provider that sent the quote, and replies with a service_request
\* addressed to that provider whose payment_proof is that hash, which is not
\* empty.
AcceptStoresAndSendsProof ==
    ( /\ IsQuote(done)
      /\ done.via = "message"
      /\ done.decision = "accept"
      /\ done.payment.called
      /\ done.payment.result.success )
    => LET tx == done.payment.result.transaction_hash
           entry == done.after[done.msg.sender_id]
       IN /\ tx # NoProof
          /\ entry.present
          /\ entry.payment_hash = tx
          /\ done.outcome = "response"
          /\ done.response.message_type = "service_request"
          /\ done.response.recipient_id = done.msg.sender_id
          /\ done.response.sender_id = HubId
          /\ done.response.content.payment_proof = tx

\* C17 witness: an accepted quote was paid.
AcceptPaidWitness ==
    /\ IsQuote(done)
    /\ done.via = "message"
    /\ done.decision = "accept"
    /\ done.payment.called
    /\ done.payment.result.success

\* C18: when the decision function accepts and make_payment reports failure,
\* the payment_required handler returns a response message that carries the
\* error text; it does not end without a message.
PaymentFailureSurfaced ==
    ( /\ IsQuote(done)
      /\ done.via = "message"
      /\ done.decision = "accept"
      /\ done.payment.called
      /\ ~done.payment.result.success )
    => /\ done.outcome = "response"
       /\ done.response.content.error = done.payment.result.error

\* A step of shutdown(): the only operation that sets `stopped` to "yes",
\* and it changes the flag, the hooked agents or that history.
ShutdownStep ==
    /\ stopped' = "yes"
    /\ <<stopped, running, hooked, interrupted>>
          # <<stopped', running', hooked', interrupted'>>

\* C21: shutdown() is cooperative.  A shutdown() call leaves the handler
\* invocation in flight, the loop's position in it, the inventory, the queue
\* and the history of completed dispatches as they are; and the invocation
\* that was in flight when shutdown() was called runs to its end afterwards
\* (the history then holds its completed dispatch).
CooperativeCancellation ==
    /\ [][ShutdownStep
             => /\ inv' = inv
                /\ pc' = pc
                /\ inventory' = inventory
                /\ message_queue' = message_queue
                /\ done' = done]_vars
    /\ \A n \in 1..MaxMsgs :
          (interrupted = n /\ inv # NoInv /\ inv.env.seq = n)
             ~> (inv = NoInv /\ done.outcome # "nothing" /\ done.seq = n)

\* C21 witness: shutdown() was called while the handler of a service_request
\* was suspended; the handler then went on, its payment was verified and the
\* item was dispensed after the flag had been cleared.
CooperativeWitness ==
    /\ binding = "queue"
    /\ interrupted > 0
    /\ ~running
    /\ inv = NoInv
    /\ done.outcome = "response"
    /\ done.seq = interrupted
    /\ done.verifier = "true"
    /\ done.after # done.before
    /\ inventory = done.after

\* The routing loop of start() has been entered.
LoopEntered == binding = "queue" /\ pc \notin {"idle", "crashed"}

\* C22: the routing loop is entered only with every agent that was
\* registered at start() initialized, nothing is dispatched before that, and
\* no message is ever dispatched to an agent that is not initialized.
InitializationPrecedesRouting ==
    /\ LoopEntered => started_with \subseteq initialized
    /\ (binding = "queue" /\ ~LoopEntered) => (inv = NoInv /\ done = NoDone)
    /\ (binding = "queue" /\ inv # NoInv) => inv.recipient \in initialized
    /\ (binding = "queue" /\ done.outcome # "nothing" /\ done.class # "none")
          => done.recipient \in initialized

\* C23: with one orchestrator running its routing loop, at most one handler
\* invocation is in flight: while an invocation is in flight the loop is
\* suspended in the await of that handler, the loop takes a message off the
\* queue only when no invocation is in flight, and an invocation in flight
\* is never replaced by the invocation for another message.
SingleInFlight ==
    /\ [](binding = "queue" /\ inv # NoInv => pc = "handling")
    /\ [][binding = "queue" /\ Len(message_queue') < Len(message_queue)
             => inv = NoInv /\ pc = "wait"]_vars
    /\ [][binding = "queue" /\ inv # NoInv /\ inv' # NoInv
             => inv'.env.seq = inv.env.seq]_vars

\* C23 witness: a handler is suspended while the next message waits in the
\* queue.
QueuedBehindHandlerWitness ==
    /\ binding = "queue"
    /\ inv # NoInv
    /\ pc = "handling"
    /\ message_queue # << >>

\* The response of the completed dispatch is a Message built by
\* Agent.send_message.
IsMessageResponse(d) ==
    /\ d.outcome = "response"
    /\ "message_type" \in DOMAIN d.response

\* C24: every response Message a handler returns has the handling agent, to
\* which the triggering message was addressed, as its sender and the sender
\* of the triggering message as its recipient.
ResponseSwapsSenderAndRecipient ==
    IsMessageResponse(done)
    => /\ done.response.sender_id = done.recipient
       /\ done.response.sender_id = done.msg.recipient_id
       /\ done.response.recipient_id = done.msg.sender_id

\* C24 witness: the requester answered a quote of the endpoint's agent, the
\* reply goes back to that agent.
ReplyToEndpointWitness ==
    /\ IsMessageResponse(done)
    /\ done.recipient = HubId
    /\ done.msg.sender_id = EndpointAgentId
    /\ done.response.recipient_id = EndpointAgentId
    /\ done.response.sender_id = HubId

\* C25: no two messages constructed by send_message carry the same id,
\* whichever agents sent them and whatever the clock read.
MessageIdsUnique ==
    \A i, j \in 1..Len(constructed) :
        i # j => constructed[i].returned.id # constructed[j].returned.id

\* A step of send_message: the only operation that adds to `constructed`.
SendStep == Len(constructed') = Len(constructed) + 1

\* C26: send_message only constructs.  The message it returns has the
\* calling agent as sender and the recipient, kind and payload it was given;
\* the call changes no orchestrator queue, no agent's handler table or
\* capabilities and no transaction tracker, and no handler is invoked by it.
SendOnlyConstructs ==
    /\ \A i \in 1..Len(constructed) :
          LET c == constructed[i]
          IN /\ c.returned.sender_id = c.by
             /\ c.returned.recipient_id = c.recipient_id
             /\ c.returned.message_type = c.message_type
             /\ c.returned.content = c.content
    /\ [][SendStep
             => /\ message_queue' = message_queue
                /\ message_handlers' = message_handlers
                /\ capabilities' = capabilities
                /\ active_transactions' = active_transactions
                /\ inv' = inv
                /\ done' = done]_vars

\* C26 witness: an agent that has a handler and a capability sent a message
\* to the other agent.
SentWitness ==
    /\ binding = "agent"
    /\ Len(constructed) = 1
    /\ constructed[1].by = HubId
    /\ constructed[1].returned.recipient_id = FridgeId
    /\ capabilities[HubId] # << >>
    /\ message_handlers[HubId]["ping"] # NoHandler

\* The handler the latest register_handler call of an agent for a kind named.
LastRegistered(history, a, kind) ==
    LET calls == {i \in 1..Len(history) :
                     history[i].agent = a /\ history[i].kind = kind}
    IN IF calls = {} THEN NoHandler
       ELSE history[CHOOSE i \in calls : \A j \in calls : j <= i].handler

\* C27: the handler table is last-write-wins.  The table holds for each kind
\* the handler of the latest register_handler call for it (none without a
\* call); register_handler for a kind leaves the handlers of every other
\* kind and of every other agent as they were; and handle_message for a
\* message of a kind invokes that handler and no other.
HandlerTableLastWriteWins ==
    /\ [](\A a \in AgentIds, k \in Kinds :
             message_handlers[a][k] = LastRegistered(registered, a, k))
    /\ [][Len(registered') = Len(registered) + 1
             => LET call == registered'[Len(registered')]
                IN \A a \in AgentIds, k \in Kinds :
                      message_handlers'[a][k] =
                         IF a = call.agent /\ k = call.kind
                         THEN call.handler
                         ELSE message_handlers[a][k]]_vars
    /\ [](binding = "agent" /\ done.outcome # "nothing"
             => done.handler =
                   LastRegistered(SubSeq(registered, 1, done.calls),
                                  done.recipient, done.msg.message_type))

\* C27 witness: a kind was registered twice with different handlers and a
\* message of that kind was then dispatched to the second.
ReregisteredWitness ==
    /\ binding = "agent"
    /\ Len(registered) = 2
    /\ registered[1].agent = registered[2].agent
    /\ registered[1].kind = registered[2].kind
    /\ registered[1].handler = "handler_a"
    /\ registered[2].handler = "handler_b"
    /\ done.outcome # "nothing"
    /\ done.recipient = registered[2].agent
    /\ done.msg.message_type = registered[2].kind
    /\ done.handler = "handler_b"

\* C28: every GET on the dispense route is answered, and by exactly the one
\* of three answers that applies: 402 with the price and the recipient when
\* the request has no proof, 200 with the delivery payload when its proof
\* verifies, 400 with an error payload when its proof fails verification.
HttpBindingAnswers ==
    (done.outcome # "nothing" /\ done.class = HttpEndpoint)
    => /\ done.outcome = "response"
       /\ LET proof == done.msg.headers.x_payment_proof
              r == done.response
          IN \/ /\ proof = NoProof
                /\ done.verifier = "not_called"
                /\ r.status_code = 402
                /\ r.body.price = ServicePrice
                /\ r.body.recipient = SellerAddress
             \/ /\ proof # NoProof
                /\ done.verifier = "true"
                /\ r.status_code = 200
                /\ r.body = [status |-> "ai_success"]
             \/ /\ proof # NoProof
                /\ done.verifier = "false"
                /\ r.status_code = 400
                /\ r.body = [error |-> "Payment verification failed"]

\* The history holds a requester invocation that handled a message of the
\* given type.
HubHandled(d, type) ==
    /\ d.outcome # "nothing"
    /\ "via" \in DOMAIN d
    /\ d.via = "message"
    /\ d.msg.message_type = type

\* C29: after the requester handled payment_invalid from a provider (it never
\* retries), its transaction tracker holds no entry for that provider.
InvalidClearsTracker ==
    HubHandled(done, "payment_invalid")
    => ~done.after[done.msg.sender_id].present

\* C30: when the decision function rejects a quote, the payment_required
\* handler returns one message: a purchase_declined from the requester to
\* the provider that sent the quote, whose reason is the reasoning the
\* decision function returned for the service and the price of that quote.
DeclineReply ==
    (HubHandled(done, "payment_required") /\ done.decision = "reject")
    => LET service_name == ServiceName(done.before, done.msg.sender_id,
                                       "unknown service")
           decision_info == ShouldPurchase(service_name, QuotedPrice(done))
       IN /\ ~decision_info.decision
          /\ done.outcome = "response"
          /\ done.response.message_type = "purchase_declined"
          /\ done.response.sender_id = HubId
          /\ done.response.recipient_id = done.msg.sender_id
          /\ done.response.content.reason = decision_info.reasoning

\* C30 witness: a quote above the budget for a service the requester had
\* asked the endpoint's agent for was declined.
DeclineReplyWitness ==
    /\ HubHandled(done, "payment_required")
    /\ done.decision = "reject"
    /\ done.msg.sender_id = EndpointAgentId
    /\ done.before[EndpointAgentId].present
    /\ done.response.content.reason[2] = "soda"

\* The tracker held a service for the sender of the quote when the
\* payment_required handler began.
RecordedService(d) ==
    /\ HubHandled(d, "payment_required")
    /\ d.before[d.msg.sender_id].present
    /\ d.before[d.msg.sender_id].service # "none"

PaysWhatWasQuoted ==
    HubHandled(done, "payment_required")
    => LET quoted == done.msg.content.payment_info
       IN /\ done.decision # "none"
          /\ done.asked.price = quoted.price
          /\ done.payment.called
             => /\ done.payment.amount = quoted.price
                /\ done.payment.recipient = quoted.recipient

\* C32 witness: the provider's quote was accepted and make_payment was
\* called with the quoted price and the seller's address, and succeeded.
PaysWhatWasQuotedWitness ==
    /\ HubHandled(done, "payment_required")
    /\ done.msg.sender_id = FridgeId
    /\ done.payment.called
    /\ done.payment.amount = ServicePrice
    /\ done.payment.recipient = SellerAddress
    /\ done.payment.result.success

\* C33: handling service_delivered from a provider removes the requester's
\* tracker entry for that provider, leaves the entries of all other
\* counterparties as they were, and returns no response message.
DeliveredFrame ==
    HubHandled(done, "service_delivered")
    => /\ ~done.after[done.msg.sender_id].present
       /\ \A p \in ProviderIds \ {done.msg.sender_id} :
             done.after[p] = done.before[p]
       /\ done.outcome = "none"
       /\ done.response = NoResponse

\* C33 witness: the provider delivered after a paid quote (its entry held
\* the payment hash) while the entry of the endpoint's agent was open; that
\* entry is still there.
DeliveredFrameWitness ==
    /\ HubHandled(done, "service_delivered")
    /\ done.msg.sender_id = FridgeId
    /\ done.before[FridgeId].present
    /\ done.before[FridgeId].payment_hash # NoProof
    /\ done.before[EndpointAgentId].present
    /\ done.after[EndpointAgentId].present
    /\ ~done.after[FridgeId].present

\* C35: under the single routing loop, whatever service_request messages
\* (with non-negative quantities) were handled, the provider's inventory of
\* every item is never negative and never above its initial value.
InventoryWithinBounds ==
    binding = "queue"
    => \A item \in DOMAIN inventory :
          /\ inventory[item] >= 0
          /\ inventory[item] <= InitialInventory[item]

\* C35 witness: all the water was delivered, and a further request with
\* proof for as much water was handled with none on the shelf.
InventoryExhaustedWitness ==
    /\ binding = "queue"
    /\ done.outcome # "nothing"
    /\ done.class = "EnhancedFridgeAgent"
    /\ done.msg.type = "service_request"
    /\ done.msg.item = "water"
    /\ done.msg.payment_proof = HashProof
    /\ done.before["water"] = 0
    /\ inventory["water"] = 0

\* The step hands the message at the head of the queue to the handler of a
\* registered agent.
DispatchStep ==
    /\ binding = "queue"
    /\ pc = "wait"
    /\ message_queue # << >>
    /\ QueueGet(message_queue).env.msg.recipient \in agents
    /\ pc' # pc

\* C37: once shutdown() has invoked an agent's shutdown hook (and start() was
\* not called again), no message is dispatched to that agent's handler, be it
\* queued already or arriving while the loop is inside its bounded wait.
NoDispatchAfterHook ==
    [][(stopped = "yes"
        /\ message_queue # << >>
        /\ QueueGet(message_queue).env.msg.recipient \in hooked)
       => ~DispatchStep]_vars

ChainKind(n) ==
    IF chain[n].message_type = "service_request"
    THEN IF chain[n].content.payment_proof = NoProof
         THEN "service_request" ELSE "service_request_with_proof"
    ELSE chain[n].message_type

\* Every message of the negotiation was handed to its recipient and the
\* last handler returned no message.
NegotiationOver ==
    /\ chain # << >>
    /\ sent = Len(chain)
    /\ inv = NoInv
    /\ ~(done.outcome = "response" /\ done.seq = sent)

\* C34: with every response handed to its recipient, one initial
\* service_request without proof gives a chain of at most four messages:
\* service_request, payment_required, then purchase_declined or a
\* service_request with proof, the latter followed by service_delivered or
\* payment_invalid; the negotiation comes to an end, and after its end no
\* handler produces a further message.
NegotiationTerminates ==
    /\ [](/\ Len(chain) <= 4
          /\ Len(chain) >= 1 => ChainKind(1) = "service_request"
          /\ Len(chain) >= 2 => ChainKind(2) = "payment_required"
          /\ Len(chain) >= 3 =>
                ChainKind(3) \in {"purchase_declined",
                                  "service_request_with_proof"}
          /\ Len(chain) >= 4 =>
                /\ ChainKind(3) = "service_request_with_proof"
                /\ ChainKind(4) \in {"service_delivered", "payment_invalid"})
    /\ [][NegotiationOver => (chain' = chain /\ NegotiationOver')]_vars
    /\ (chain # << >>) ~> NegotiationOver

\* C34 witness: the negotiation ended after four messages, the last one
\* service_delivered.
NegotiationWitness ==
    /\ NegotiationOver
    /\ Len(chain) = 4
    /\ ChainKind(4) = "service_delivered"

====
